---- MODULE Spec2Model ----
(***************************************************************************)
(* Pose-driven visual effects of mmpose/core/visualization/effects.py:     *)
(* apply_bugeye_effect, apply_sunglasses_effect, apply_hat_effect and      *)
(* apply_firecracker_effect, run over small images.                        *)
(*                                                                         *)
(* An image is a record [w, h, px] with px a function from pixel positions *)
(* <<x, y>> (0-based, x the column) to pixels; a pixel is a tuple of       *)
(* channel values 0..255, <<b, g, r>> or <<b, g, r, a>>.  Arrays live in a  *)
(* heap and are named by references, so that writing through one name is   *)
(* seen through every other name of the same array, as with numpy arrays.  *)
(* Confidence scores and the threshold are in tenths (5 is 0.5).           *)
(***************************************************************************)
EXTENDS Integers, Sequences, FiniteSets, TLC

\* ------------------------------------------------------------------ bounds
\* Scene image width and height, asset image width and height, and the
\* longest detection list.
W == 4
H == 3
AW == 2
AH == 2
MaxDet == 2

\* ------------------------------------------------------- program constants
\* k1 = 0.001 and epe = 1e-5, held as their reciprocals.
K1Inv == 1000
EpeInv == 100000
\* Grayscale thresholds of the white-background masks, and the hat's alpha
\* and brightness thresholds.
SunglassesThr == 200
FirecrackerThr == 240
HatAlphaThr == 128
HatGrayThr == 30
\* borderValue=(255, 255, 255): the fill of the warped buffer.
BorderWhite == 255
\* h_tar = h / 3
FirecrackerDiv == 3
\* Default kpt_thr = 0.5, in tenths.
DefaultKptThr == 5
\* Resolution of the float32 coordinate grids: coordinates are held in units
\* of 1/Q pixel, each arithmetic result rounded to the nearest unit.
Q == 100

\* ------------------------------------------------------------- arithmetic
\* n / d rounded to the nearest integer (d > 0).
Round(n, d) == (n + d \div 2) \div d

Min(a, b) == IF a < b THEN a ELSE b
Max(a, b) == IF a > b THEN a ELSE b

Pos(w, h) == (0 .. (w - 1)) \X (0 .. (h - 1))

\* cv2.cvtColor(., COLOR_BGR2GRAY) of one 8-bit pixel: the fixed-point
\* weighted sum 0.114 B + 0.587 G + 0.299 R, rounded.
Gray(p) == (p[1] * 1868 + p[2] * 9617 + p[3] * 4899 + 8192) \div 16384

\* borderValue=(255, 255, 255) as a pixel of n channels: a scalar has four
\* components and the tuple leaves the fourth at 0.
BorderValue(n) == [c \in 1 .. n |-> IF c <= 3 THEN BorderWhite ELSE 0]

Channels(im) == Len(im.px[<<0, 0>>])

\* The pixel read at integer position <<x, y>> of im: outside the image the
\* border fill (BORDER_CONSTANT) or the nearest edge pixel (BORDER_REPLICATE).
PixelAt(im, x, y, replicate) ==
    IF x >= 0 /\ x < im.w /\ y >= 0 /\ y < im.h
    THEN im.px[<<x, y>>]
    ELSE IF replicate
         THEN im.px[<<Max(0, Min(im.w - 1, x)), Max(0, Min(im.h - 1, y))>>]
         ELSE BorderValue(Channels(im))

\* Bilinear sample of im at <<u32, v32>>, coordinates in 1/32 pixel (the
\* fixed-point step of cv2.remap and cv2.warpPerspective).
Bilinear(im, u32, v32, replicate) ==
    LET x0 == u32 \div 32
        y0 == v32 \div 32
        fx == u32 % 32
        fy == v32 % 32
        p00 == PixelAt(im, x0, y0, replicate)
        p10 == PixelAt(im, x0 + 1, y0, replicate)
        p01 == PixelAt(im, x0, y0 + 1, replicate)
        p11 == PixelAt(im, x0 + 1, y0 + 1, replicate)
    IN  [c \in 1 .. Channels(im) |->
            ((32 - fx) * (32 - fy) * p00[c] + fx * (32 - fy) * p10[c]
             + (32 - fx) * fy * p01[c] + fx * fy * p11[c] + 512) \div 1024]

\* --------------------------------------------------------------- keypoints
\* kpts[idx, 2], kpts[idx, :2] with a 0-based index; an index that is not a
\* row of the array raises IndexError.
InRange(kpts, idx) == idx >= 0 /\ idx < Len(kpts)
Score(kpts, idx) == kpts[idx + 1][3]
XY(kpts, idx) == <<kpts[idx + 1][1], kpts[idx + 1][2]>>

\* ---------------------------------------------------- homography overlays
\* A point set is a record [den, p]: four points whose coordinates are
\* p[i][1] / den and p[i][2] / den, so the fractions 0.3, 0.5, 0.7 and h / 3
\* of the code stay exact.

\* pts_src of the sunglasses and the hat: the 30% / 70% points of the asset.
PtsSrcInner(wm, hm) ==
    [den |-> 10,
     p |-> << <<3 * wm, 3 * hm>>, <<3 * wm, 7 * hm>>,
              <<7 * wm, 3 * hm>>, <<7 * wm, 7 * hm>> >>]

\* pts_src of the firecracker: the corners of the asset.
PtsSrcCorners(wm, hm) ==
    [den |-> 1, p |-> << <<0, 0>>, <<0, hm>>, <<wm, 0>>, <<wm, hm>> >>]

\* Twice vo = 0.5 * (kpt_reye - kpt_leye)[::-1] * [-1, 1].
Vo2(leye, reye) == <<-(reye[2] - leye[2]), reye[1] - leye[1]>>

\* Twice veye = 0.5 * (kpt_reye - kpt_leye).
Veye2(leye, reye) == <<reye[1] - leye[1], reye[2] - leye[2]>>

\* pts_tar of the sunglasses: reye + vo, reye - vo, leye + vo, leye - vo.
PtsTarSunglasses(leye, reye) ==
    LET vo == Vo2(leye, reye)
    IN  [den |-> 2,
         p |-> << <<2 * reye[1] + vo[1], 2 * reye[2] + vo[2]>>,
                  <<2 * reye[1] - vo[1], 2 * reye[2] - vo[2]>>,
                  <<2 * leye[1] + vo[1], 2 * leye[2] + vo[2]>>,
                  <<2 * leye[1] - vo[1], 2 * leye[2] - vo[2]>> >>]

\* pts_tar of the hat: reye + veye + 5 vo, reye + veye + vo,
\* leye - veye + 5 vo, leye - veye + vo.
PtsTarHat(leye, reye) ==
    LET vo == Vo2(leye, reye)
        ve == Veye2(leye, reye)
    IN  [den |-> 2,
         p |-> << <<2 * reye[1] + ve[1] + 5 * vo[1], 2 * reye[2] + ve[2] + 5 * vo[2]>>,
                  <<2 * reye[1] + ve[1] + vo[1], 2 * reye[2] + ve[2] + vo[2]>>,
                  <<2 * leye[1] - ve[1] + 5 * vo[1], 2 * leye[2] - ve[2] + 5 * vo[2]>>,
                  <<2 * leye[1] - ve[1] + vo[1], 2 * leye[2] - ve[2] + vo[2]>> >>]

\* pts_tar of the firecracker at one wrist, with h_tar = h / 3 and
\* w_tar = h_tar / hm * wm: wrist - [w_tar/2, 0], wrist - [w_tar/2, -h_tar],
\* wrist + [w_tar/2, 0], wrist + [w_tar/2, h_tar].
PtsTarFirecracker(wrist, h, wm, hm) ==
    LET den == 2 * FirecrackerDiv * hm
        hw == h * wm
        ht == 2 * h * hm
    IN  [den |-> den,
         p |-> << <<den * wrist[1] - hw, den * wrist[2]>>,
                  <<den * wrist[1] - hw, den * wrist[2] + ht>>,
                  <<den * wrist[1] + hw, den * wrist[2]>>,
                  <<den * wrist[1] + hw, den * wrist[2] + ht>> >>]

\* cv2.findHomography(pts_src, pts_tar) for the correspondences the effects
\* build: pts_src is an axis-aligned rectangle and pts_tar a parallelogram
\* (pts_tar[4] = pts_tar[1] + a + b), so the homography is the affine map
\* that sends the rectangle's sides to a (source x) and b (source y).
FindHomography(pts_src, pts_tar) ==
    [sden |-> pts_src.den,
     s0 |-> pts_src.p[1],
     sw |-> pts_src.p[3][1] - pts_src.p[1][1],
     sh |-> pts_src.p[2][2] - pts_src.p[1][2],
     tden |-> pts_tar.den,
     o |-> pts_tar.p[1],
     a |-> <<pts_tar.p[3][1] - pts_tar.p[1][1], pts_tar.p[3][2] - pts_tar.p[1][2]>>,
     b |-> <<pts_tar.p[2][1] - pts_tar.p[1][1], pts_tar.p[2][2] - pts_tar.p[1][2]>>]

\* The asset coordinate, in 1/32 pixel, that the homography's inverse gives
\* for scene pixel pos.
SourceCoord(h_mat, pos) ==
    LET px == h_mat.tden * pos[1] - h_mat.o[1]
        py == h_mat.tden * pos[2] - h_mat.o[2]
        det == h_mat.a[1] * h_mat.b[2] - h_mat.a[2] * h_mat.b[1]
        sgn == IF det < 0 THEN -1 ELSE 1
        s == px * h_mat.b[2] - py * h_mat.b[1]
        t == h_mat.a[1] * py - h_mat.a[2] * px
    IN  <<Round(32 * sgn * (h_mat.s0[1] * det + h_mat.sw * s), h_mat.sden * sgn * det),
          Round(32 * sgn * (h_mat.s0[2] * det + h_mat.sh * t), h_mat.sden * sgn * det)>>

\* cv2.warpPerspective(asset, h_mat, dsize=(w, h), borderValue=(255,255,255)):
\* a new w x h buffer, each pixel sampled from the asset, white outside it.
WarpPerspective(asset, h_mat, w, h) ==
    [w |-> w, h |-> h,
     px |-> [pos \in Pos(w, h) |->
                LET uv == SourceCoord(h_mat, pos)
                IN  Bilinear(asset, uv[1], uv[2], FALSE)]]

\* Mutant of MaskSunglasses: <= for <.
MaskSunglassesLe(patch) ==
    [pos \in Pos(patch.w, patch.h) |->
        IF Gray(patch.px[pos]) <= SunglassesThr THEN 1 ELSE 0]

\* mask = (cvtColor(patch, BGR2GRAY) < thr).astype(uint8)
MaskSunglasses(patch) ==
    [pos \in Pos(patch.w, patch.h) |->
        IF Gray(patch.px[pos]) < SunglassesThr THEN 1 ELSE 0]

MaskFirecracker(patch) ==
    [pos \in Pos(patch.w, patch.h) |->
        IF Gray(patch.px[pos]) < FirecrackerThr THEN 1 ELSE 0]

\* patch = patch[:, :, :-1]
DropAlpha(patch) ==
    [w |-> patch.w, h |-> patch.h,
     px |-> [pos \in Pos(patch.w, patch.h) |->
                SubSeq(patch.px[pos], 1, Len(patch.px[pos]) - 1)]]

\* mask = (patch[:, :, -1] > 128) * (cvtColor(patch[:, :, :-1], BGR2GRAY) > 30)
MaskHat(patch) ==
    [pos \in Pos(patch.w, patch.h) |->
        IF /\ patch.px[pos][Len(patch.px[pos])] > HatAlphaThr
           /\ Gray(patch.px[pos]) > HatGrayThr
        THEN 1 ELSE 0]

\* cv2.copyTo(src, mask, dst): dst with src's pixel wherever mask is set.
CopyTo(src, mask, dst) ==
    [w |-> dst.w, h |-> dst.h,
     px |-> [pos \in Pos(dst.w, dst.h) |->
                IF mask[pos] # 0 THEN src.px[pos] ELSE dst.px[pos]]]

\* ----------------------------------------------------------------- bug-eye
\* np.meshgrid(np.arange(w), np.arange(h)) as float32: the identity grid.
\* A grid gives, per pixel, the coordinate <<x, y>> to sample, in 1/Q pixel.
Meshgrid(w, h) == [pos \in Pos(w, h) |-> <<Q * pos[1], Q * pos[2]>>]

\* Mutant of Distort: the anchor is not added back.
DistortNoRecenter(grid, c, bbox) ==
    LET scale == (bbox[3] - bbox[1]) * (bbox[3] - bbox[1])
                 + (bbox[4] - bbox[2]) * (bbox[4] - bbox[2])
    IN  [pos \in DOMAIN grid |->
            LET dx == grid[pos][1] - Q * c[1]
                dy == grid[pos][2] - Q * c[2]
                num == (EpeInv \div (Q * Q)) * (dx * dx + dy * dy) + 1
                den == num + (EpeInv \div K1Inv) * scale
            IN  <<Round(dx * num, den), Round(dy * num, den)>>]

\* One pass of the distortion about <<xc, yc>> over the whole grid:
\*   scale = (x2 - x1)^2 + (y2 - y1)^2
\*   r2 = ((xx - xc)^2 + (yy - yc)^2 + epe) / scale
\*   xx = (xx - xc) / (1 + k1 / r2) + xc, and the same for yy.
\* 1 / (1 + k1 / r2) is num / den below (both scaled by 1/epe); a zero
\* scale makes r2 infinite and the factor 1.
Distort(grid, c, bbox) ==
    LET scale == (bbox[3] - bbox[1]) * (bbox[3] - bbox[1])
                 + (bbox[4] - bbox[2]) * (bbox[4] - bbox[2])
    IN  [pos \in DOMAIN grid |->
            LET dx == grid[pos][1] - Q * c[1]
                dy == grid[pos][2] - Q * c[2]
                num == (EpeInv \div (Q * Q)) * (dx * dx + dy * dy) + 1
                den == num + (EpeInv \div K1Inv) * scale
            IN  <<Round(dx * num, den) + Q * c[1],
                  Round(dy * num, den) + Q * c[2]>>]

\* cv2.remap(img, xx, yy, INTER_AREA, BORDER_REPLICATE): a new image, each
\* pixel sampled at the grid's coordinate (remap interpolates linearly for
\* INTER_AREA), the edge pixel repeated outside the image.
Remap(im, grid) ==
    [w |-> im.w, h |-> im.h,
     px |-> [pos \in Pos(im.w, im.h) |->
                Bilinear(im, Round(32 * grid[pos][1], Q),
                         Round(32 * grid[pos][2], Q), TRUE)]]

\* ------------------------------------------------------------------ gates
\* if kpts[left_eye_index, 2] < kpt_thr or kpts[right_eye_index, 2] < kpt_thr:
\*     continue
\* The left score is read first; `or` reads the right one only when the left
\* one passed.
GateBugeye(kpts, li, ri, thr) ==
    IF ~InRange(kpts, li) THEN "fault"
    ELSE IF Score(kpts, li) < thr THEN "skip"
    ELSE IF ~InRange(kpts, ri) THEN "fault"
    ELSE IF Score(kpts, ri) < thr THEN "skip"
    ELSE "apply"

\* Mutant of GateSunglasses: the right eye's score is never tested.
GateSunglassesLeftOnly(kpts, li, ri, thr) ==
    IF ~InRange(kpts, li) THEN "fault"
    ELSE IF Score(kpts, li) < thr THEN "skip"
    ELSE IF ~InRange(kpts, ri) THEN "fault"
    ELSE "apply"

GateSunglasses(kpts, li, ri, thr) ==
    IF ~InRange(kpts, li) THEN "fault"
    ELSE IF Score(kpts, li) < thr THEN "skip"
    ELSE IF ~InRange(kpts, ri) THEN "fault"
    ELSE IF Score(kpts, ri) < thr THEN "skip"
    ELSE "apply"

GateHat(kpts, li, ri, thr) ==
    IF ~InRange(kpts, li) THEN "fault"
    ELSE IF Score(kpts, li) < thr THEN "skip"
    ELSE IF ~InRange(kpts, ri) THEN "fault"
    ELSE IF Score(kpts, ri) < thr THEN "skip"
    ELSE "apply"

\* if kpts[left_wrist_idx, 2] > kpt_thr:
GateLeftWrist(kpts, li, thr) ==
    IF ~InRange(kpts, li) THEN "fault"
    ELSE IF Score(kpts, li) > thr THEN "apply"
    ELSE "skip"

\* if kpts[right_wrist_idx, 2] > kpt_thr:
GateRightWrist(kpts, ri, thr) ==
    IF ~InRange(kpts, ri) THEN "fault"
    ELSE IF Score(kpts, ri) > thr THEN "apply"
    ELSE "skip"

\* ----------------------------------------------------------------- inputs
Effects == {"bugeye", "sunglasses", "hat", "firecracker"}
Overlays == {"sunglasses", "hat", "firecracker"}

\* Scene images: two colour gradients.
ScenePx(k, pos) ==
    IF k = 1
    THEN <<(70 * pos[1] + 40 * pos[2] + 20) % 256,
           (50 * pos[1] + 90 * pos[2] + 60) % 256,
           (30 * pos[1] + 20 * pos[2] + 100) % 256>>
    ELSE <<(200 + 196 * pos[1]) % 256,
           (35 * pos[2] + 5) % 256,
           (90 * pos[1] + 10) % 256>>

SceneImages ==
    {[w |-> W, h |-> H, px |-> [pos \in Pos(W, H) |-> ScenePx(k, pos)]] : k \in {1, 2}}

\* Asset pixels: dark, exactly at and just under the two white-background
\* thresholds, and coloured; for the hat also opaque, half and fully
\* transparent and too-dark pixels.
Palette3 ==
    << <<20, 20, 20>>, <<240, 240, 240>>, <<239, 239, 239>>, <<200, 200, 200>>,
       <<255, 200, 100>>, <<199, 199, 199>> >>
Palette4 ==
    << <<40, 90, 200, 255>>, <<10, 10, 10, 255>>, <<60, 60, 60, 128>>,
       <<250, 250, 250, 255>>, <<90, 40, 20, 0>>, <<30, 30, 30, 255>> >>

AssetImage(palette, k) ==
    [w |-> AW, h |-> AH,
     px |-> [pos \in Pos(AW, AH) |->
                palette[((pos[1] + AW * pos[2] + k) % Len(palette)) + 1]]]

AssetImages(e) ==
    {AssetImage(IF e = "hat" THEN Palette4 ELSE Palette3, k) : k \in {0, 3}}

\* Detections: two geometries, each with confident, one-sided and
\* at-threshold scores, and detections with a single keypoint.
GeomA == [bbox |-> <<0, 0, 30, 40>>, l |-> <<2, 1>>, r |-> <<0, 1>>]
GeomB == [bbox |-> <<0, 0, 20, 20>>, l |-> <<2, 2>>, r |-> <<1, 2>>]

Detections ==
    { [bbox |-> c[1].bbox,
       keypoints |-> << <<c[1].l[1], c[1].l[2], c[2]>>, <<c[1].r[1], c[1].r[2], c[3]>> >>]
        : c \in {<<GeomA, 9, 9>>, <<GeomA, 9, 3>>, <<GeomA, 5, 5>>,
                 <<GeomB, 9, 9>>, <<GeomB, 3, 9>>} }
    \cup
    { [bbox |-> GeomA.bbox, keypoints |-> << <<GeomA.l[1], GeomA.l[2], sc>> >>]
        : sc \in {9, 3} }

DetectionLists == UNION {[1 .. n -> Detections] : n \in 0 .. MaxDet}

\* ------------------------------------------------------------------ state
VARIABLES
    effect,         \* which of the four functions is called
    pose_results,   \* the detection list [d1, d2, ...]
    left_index,     \* left_eye_index / left_wrist_idx
    right_index,    \* right_eye_index / right_wrist_idx
    kpt_thr,        \* score threshold, in tenths
    heap,           \* the arrays: heap[ref] is the image held by array ref
    scene,          \* ref of the caller's scene image
    asset,          \* ref of the asset image (no asset for the bug-eye)
    asset0,         \* the asset's pixels as loaded
    call,           \* number of the call being made: 1, 2, 3
    pc,             \* "idle", "entry", "loop", "reye", "rwrist", "fault", "done"
    arg,            \* ref passed as img to the current call
    img0,           \* the pixels arg held when the call was made
    dets,           \* the detection list passed to the current call
    img,            \* the function's local img: ref of the working image
    i,              \* 1-based position of the loop in dets
    grid,           \* the bug-eye's xx, yy
    iter0,          \* the working image's pixels when the current iteration began
    ret,            \* refs returned by the calls made so far
    log             \* the remaps and masked copies done, in order

vars ==
    <<effect, pose_results, left_index, right_index, kpt_thr, heap, scene, asset,
      asset0, call, pc, arg, img0, dets, img, i, grid, iter0, ret, log>>

inputs == <<effect, pose_results, left_index, right_index, kpt_thr, scene, asset, asset0>>

\* The pixels of the working image.
Work == heap[img]

Init ==
    /\ effect \in Effects
    /\ pose_results \in DetectionLists
    /\ left_index = 0
    /\ right_index = 1
    /\ kpt_thr = DefaultKptThr
    /\ \E sc \in SceneImages, as \in AssetImages(effect) :
          /\ heap = <<sc, as>>
          /\ asset0 = as
    /\ scene = 1
    /\ asset = 2
    /\ call = 1
    /\ pc = "idle"
    /\ arg = 0
    /\ img0 = <<>>
    /\ dets = <<>>
    /\ img = 0
    /\ i = 0
    /\ grid = <<>>
    /\ iter0 = <<>>
    /\ ret = <<>>
    /\ log = <<>>

\* ----------------------------------------------------------------- caller
\* The caller applies one effect three times: to the whole list, to its
\* first detection alone, and to the rest of the list on the image the
\* second call returned.  Calls 1 and 2 each get their own copy of the scene.
CallList(c) ==
    IF c = 1 THEN pose_results
    ELSE IF c = 2 THEN SubSeq(pose_results, 1, Min(1, Len(pose_results)))
    ELSE SubSeq(pose_results, 2, Len(pose_results))

Invoke ==
    /\ pc = "idle"
    /\ IF call = 3
       THEN /\ arg' = ret[2]
            /\ heap' = heap
       ELSE /\ arg' = Len(heap) + 1
            /\ heap' = Append(heap, heap[scene])
    /\ img0' = heap'[arg']
    /\ dets' = CallList(call)
    /\ pc' = "entry"
    /\ UNCHANGED <<inputs, call, img, i, grid, iter0, ret, log>>

\* return img
ReturnImg ==
    /\ pc = "loop"
    /\ i > Len(dets)
    /\ ret' = Append(ret, img)
    /\ call' = call + 1
    /\ pc' = IF call = 3 THEN "done" ELSE "idle"
    /\ UNCHANGED <<inputs, heap, arg, img0, dets, img, i, grid, iter0, log>>

\* A record of one remap or masked copy.
LogEntry(side, warped, mask, g) ==
    [call |-> call, det |-> i, side |-> side, warped |-> warped, mask |-> mask,
     grid |-> g]

\* An exception leaves the function; the arrays keep what was written.
Raise ==
    /\ pc' = "fault"
    /\ UNCHANGED <<inputs, heap, call, arg, img0, dets, img, i, grid, ret, log>>

\* continue
Continue ==
    /\ pc' = "loop"
    /\ i' = i + 1
    /\ UNCHANGED <<inputs, heap, call, arg, img0, dets, img, grid, ret, log>>

\* ---------------------------------------------------- apply_bugeye_effect
\* xx, yy = np.meshgrid(...), once, before the loop.
BugeyeEnter ==
    /\ effect = "bugeye"
    /\ pc = "entry"
    /\ grid' = Meshgrid(heap[arg].w, heap[arg].h)
    /\ img' = arg
    /\ i' = 1
    /\ pc' = "loop"
    /\ iter0' = heap[arg]
    /\ UNCHANGED <<inputs, heap, call, arg, img0, dets, ret, log>>

\* The gate, and the first pass of `for xc, yc in [kpt_leye, kpt_reye]`.
BugeyeLeftEye ==
    /\ effect = "bugeye"
    /\ pc = "loop"
    /\ i <= Len(dets)
    /\ iter0' = Work
    /\ LET pose == dets[i]
           gate == GateBugeye(pose.keypoints, left_index, right_index, kpt_thr)
       IN  CASE gate = "fault" -> Raise
             [] gate = "skip" -> Continue
             [] gate = "apply" ->
                  /\ grid' = Distort(grid, XY(pose.keypoints, left_index), pose.bbox)
                  /\ pc' = "reye"
                  /\ UNCHANGED <<inputs, heap, call, arg, img0, dets, img, i, ret, log>>

\* The second pass, about the right eye, and img = cv2.remap(img, xx, yy, ...),
\* which returns a new array.
BugeyeRightEye ==
    /\ effect = "bugeye"
    /\ pc = "reye"
    /\ LET pose == dets[i]
           g2 == Distort(grid, XY(pose.keypoints, right_index), pose.bbox)
       IN  /\ grid' = g2
           /\ heap' = Append(heap, Remap(Work, g2))
           /\ img' = Len(heap) + 1
           /\ log' = Append(log, LogEntry("eyes", <<>>, <<>>, g2))
    /\ i' = i + 1
    /\ pc' = "loop"
    /\ UNCHANGED <<inputs, call, arg, img0, dets, iter0, ret>>

BugeyeReturn ==
    /\ effect = "bugeye"
    /\ ReturnImg

\* ------------------------------------------------ apply_sunglasses_effect
SunglassesEnter ==
    /\ effect = "sunglasses"
    /\ pc = "entry"
    /\ img' = arg
    /\ i' = 1
    /\ pc' = "loop"
    /\ iter0' = heap[arg]
    /\ UNCHANGED <<inputs, heap, call, arg, img0, dets, grid, ret, log>>

\* Mutant of SunglassesStep: the list is walked from its end
\* (for pose in reversed(pose_results)).
SunglassesStepReversed ==
    /\ effect = "sunglasses"
    /\ pc = "loop"
    /\ i <= Len(dets)
    /\ iter0' = Work
    /\ LET j == Len(dets) + 1 - i
           kpts == dets[j].keypoints
           gate == GateSunglasses(kpts, left_index, right_index, kpt_thr)
       IN  CASE gate = "fault" -> Raise
             [] gate = "skip" -> Continue
             [] gate = "apply" ->
                  LET am == heap[asset]
                      h_mat == FindHomography(
                                  PtsSrcInner(am.w, am.h),
                                  PtsTarSunglasses(XY(kpts, left_index),
                                                   XY(kpts, right_index)))
                      patch == WarpPerspective(am, h_mat, Work.w, Work.h)
                      mask == MaskSunglasses(patch)
                  IN  /\ heap' = [heap EXCEPT ![img] = CopyTo(patch, mask, @)]
                      /\ log' = Append(log, [LogEntry("eyes", patch, mask, <<>>)
                                                EXCEPT !.det = j])
                      /\ i' = i + 1
                      /\ pc' = "loop"
                      /\ UNCHANGED <<inputs, call, arg, img0, dets, img, grid, ret>>

\* One detection: gate, anchors, homography, warp, mask, and
\* img = cv2.copyTo(patch, mask, img), which writes into img's array.
SunglassesStep ==
    /\ effect = "sunglasses"
    /\ pc = "loop"
    /\ i <= Len(dets)
    /\ iter0' = Work
    /\ LET kpts == dets[i].keypoints
           gate == GateSunglasses(kpts, left_index, right_index, kpt_thr)
       IN  CASE gate = "fault" -> Raise
             [] gate = "skip" -> Continue
             [] gate = "apply" ->
                  LET am == heap[asset]
                      h_mat == FindHomography(
                                  PtsSrcInner(am.w, am.h),
                                  PtsTarSunglasses(XY(kpts, left_index),
                                                   XY(kpts, right_index)))
                      patch == WarpPerspective(am, h_mat, Work.w, Work.h)
                      mask == MaskSunglasses(patch)
                  IN  /\ heap' = [heap EXCEPT ![img] = CopyTo(patch, mask, @)]
                      /\ log' = Append(log, LogEntry("eyes", patch, mask, <<>>))
                      /\ i' = i + 1
                      /\ pc' = "loop"
                      /\ UNCHANGED <<inputs, call, arg, img0, dets, img, grid, ret>>

SunglassesReturn ==
    /\ effect = "sunglasses"
    /\ ReturnImg

\* ------------------------------------------------------- apply_hat_effect
\* Mutant of HatEnter: no copy is taken, img stays the caller's array.
HatEnterNoCopy ==
    /\ effect = "hat"
    /\ pc = "entry"
    /\ img' = arg
    /\ i' = 1
    /\ pc' = "loop"
    /\ iter0' = heap[arg]
    /\ UNCHANGED <<inputs, heap, call, arg, img0, dets, grid, ret, log>>

\* img_orig = img.copy(); img = img_orig.copy()
HatEnter ==
    /\ effect = "hat"
    /\ pc = "entry"
    /\ heap' = Append(Append(heap, heap[arg]), heap[arg])
    /\ img' = Len(heap) + 2
    /\ i' = 1
    /\ pc' = "loop"
    /\ iter0' = heap[arg]
    /\ UNCHANGED <<inputs, call, arg, img0, dets, grid, ret, log>>

\* Mutant of HatStep: each hat is drawn on a copy of the input image
\* (cv2.copyTo(patch, mask, img_orig.copy())), not on the working image.
HatStepOntoInput ==
    /\ effect = "hat"
    /\ pc = "loop"
    /\ i <= Len(dets)
    /\ iter0' = Work
    /\ LET kpts == dets[i].keypoints
           gate == GateHat(kpts, left_index, right_index, kpt_thr)
       IN  CASE gate = "fault" -> Raise
             [] gate = "skip" -> Continue
             [] gate = "apply" ->
                  LET am == heap[asset]
                      h_mat == FindHomography(
                                  PtsSrcInner(am.w, am.h),
                                  PtsTarHat(XY(kpts, left_index),
                                            XY(kpts, right_index)))
                      warped == WarpPerspective(am, h_mat, Work.w, Work.h)
                      mask == MaskHat(warped)
                      patch == DropAlpha(warped)
                  IN  /\ heap' = Append(heap, CopyTo(patch, mask, heap[arg]))
                      /\ img' = Len(heap) + 1
                      /\ log' = Append(log, LogEntry("eyes", warped, mask, <<>>))
                      /\ i' = i + 1
                      /\ pc' = "loop"
                      /\ UNCHANGED <<inputs, call, arg, img0, dets, grid, ret>>

\* One detection: gate, anchors, homography, warp, alpha and brightness
\* mask, and the masked copy into img's array.
HatStep ==
    /\ effect = "hat"
    /\ pc = "loop"
    /\ i <= Len(dets)
    /\ iter0' = Work
    /\ LET kpts == dets[i].keypoints
           gate == GateHat(kpts, left_index, right_index, kpt_thr)
       IN  CASE gate = "fault" -> Raise
             [] gate = "skip" -> Continue
             [] gate = "apply" ->
                  LET am == heap[asset]
                      h_mat == FindHomography(
                                  PtsSrcInner(am.w, am.h),
                                  PtsTarHat(XY(kpts, left_index),
                                            XY(kpts, right_index)))
                      warped == WarpPerspective(am, h_mat, Work.w, Work.h)
                      mask == MaskHat(warped)
                      patch == DropAlpha(warped)
                  IN  /\ heap' = [heap EXCEPT ![img] = CopyTo(patch, mask, @)]
                      /\ log' = Append(log, LogEntry("eyes", warped, mask, <<>>))
                      /\ i' = i + 1
                      /\ pc' = "loop"
                      /\ UNCHANGED <<inputs, call, arg, img0, dets, img, grid, ret>>

HatReturn ==
    /\ effect = "hat"
    /\ ReturnImg

\* ----------------------------------------------- apply_firecracker_effect
FirecrackerEnter ==
    /\ effect = "firecracker"
    /\ pc = "entry"
    /\ img' = arg
    /\ i' = 1
    /\ pc' = "loop"
    /\ iter0' = heap[arg]
    /\ UNCHANGED <<inputs, heap, call, arg, img0, dets, grid, ret, log>>

\* The masked copy of the firecracker hung at one wrist.
FirecrackerOverlay(wrist, side) ==
    LET am == heap[asset]
        h_mat == FindHomography(PtsSrcCorners(am.w, am.h),
                                PtsTarFirecracker(wrist, Work.h, am.w, am.h))
        patch == WarpPerspective(am, h_mat, Work.w, Work.h)
        mask == MaskFirecracker(patch)
    IN  /\ heap' = [heap EXCEPT ![img] = CopyTo(patch, mask, @)]
        /\ log' = Append(log, LogEntry(side, patch, mask, <<>>))

\* if kpts[left_wrist_idx, 2] > kpt_thr: ...
FirecrackerLeft ==
    /\ effect = "firecracker"
    /\ pc = "loop"
    /\ i <= Len(dets)
    /\ iter0' = Work
    /\ LET kpts == dets[i].keypoints
           gate == GateLeftWrist(kpts, left_index, kpt_thr)
       IN  CASE gate = "fault" -> Raise
             [] gate = "skip" ->
                  /\ pc' = "rwrist"
                  /\ UNCHANGED <<inputs, heap, call, arg, img0, dets, img, i, grid,
                                 ret, log>>
             [] gate = "apply" ->
                  /\ FirecrackerOverlay(XY(kpts, left_index), "left")
                  /\ pc' = "rwrist"
                  /\ UNCHANGED <<inputs, call, arg, img0, dets, img, i, grid, ret>>

\* Mutant of FirecrackerRight: elif for if, the right wrist is looked at only
\* when the left one was not drawn.
FirecrackerRightElif ==
    /\ effect = "firecracker"
    /\ pc = "rwrist"
    /\ UNCHANGED iter0
    /\ LET kpts == dets[i].keypoints
           gate == IF \E n \in 1 .. Len(log) :
                        log[n].call = call /\ log[n].det = i /\ log[n].side = "left"
                   THEN "skip"
                   ELSE GateRightWrist(kpts, right_index, kpt_thr)
       IN  CASE gate = "fault" -> Raise
             [] gate = "skip" -> Continue
             [] gate = "apply" ->
                  /\ FirecrackerOverlay(XY(kpts, right_index), "right")
                  /\ i' = i + 1
                  /\ pc' = "loop"
                  /\ UNCHANGED <<inputs, call, arg, img0, dets, img, grid, ret>>

\* if kpts[right_wrist_idx, 2] > kpt_thr: ...
FirecrackerRight ==
    /\ effect = "firecracker"
    /\ pc = "rwrist"
    /\ UNCHANGED iter0
    /\ LET kpts == dets[i].keypoints
           gate == GateRightWrist(kpts, right_index, kpt_thr)
       IN  CASE gate = "fault" -> Raise
             [] gate = "skip" -> Continue
             [] gate = "apply" ->
                  /\ FirecrackerOverlay(XY(kpts, right_index), "right")
                  /\ i' = i + 1
                  /\ pc' = "loop"
                  /\ UNCHANGED <<inputs, call, arg, img0, dets, img, grid, ret>>

FirecrackerReturn ==
    /\ effect = "firecracker"
    /\ ReturnImg

\* ---------------------------------------------------------- specification
Next ==
    \/ Invoke
    \/ BugeyeEnter \/ BugeyeLeftEye \/ BugeyeRightEye \/ BugeyeReturn
    \/ SunglassesEnter \/ SunglassesStep \/ SunglassesReturn
    \/ HatEnter \/ HatStep \/ HatReturn
    \/ FirecrackerEnter \/ FirecrackerLeft \/ FirecrackerRight \/ FirecrackerReturn

Spec == Init /\ [][Next]_vars

\* ------------------------------------------------------------- properties
EyeEffects == {"bugeye", "sunglasses", "hat"}

\* A keypoint of the detection whose confidence is strictly below, or at
\* least, the threshold.
Below(d, idx) == InRange(d.keypoints, idx) /\ Score(d.keypoints, idx) < kpt_thr
AtLeast(d, idx) == InRange(d.keypoints, idx) /\ Score(d.keypoints, idx) >= kpt_thr
Above(d, idx) == InRange(d.keypoints, idx) /\ Score(d.keypoints, idx) > kpt_thr

\* The current call is inside its loop.
InLoop == pc \in {"loop", "reye", "rwrist"}

\* The effect drawn for detection j of call c (for one side) is in the log.
Logged(c, j, side) ==
    \E n \in 1 .. Len(log) :
        log[n].call = c /\ log[n].det = j /\ log[n].side = side

\* The colour channels of a warped pixel.
Colour(p) == SubSeq(p, 1, 3)

\* A detection that contributes nothing under the claim C1: some gating
\* keypoint below the threshold (for the firecracker, both wrists).
Gated(d) ==
    IF effect \in EyeEffects
    THEN Below(d, left_index) \/ Below(d, right_index)
    ELSE Below(d, left_index) /\ Below(d, right_index)

\* C1: a detection (for the firecracker: a wrist side) with a gating
\* keypoint strictly below kpt_thr leaves the working image pixel for pixel
\* as it was, and a call whose list holds only such detections returns an
\* image identical to its input.
C1_BelowThresholdIsNoOp ==
    [][ /\ ( /\ pc = "loop"
             /\ i <= Len(dets)
             /\ \/ effect \in EyeEffects
                   /\ (Below(dets[i], left_index) \/ Below(dets[i], right_index))
                \/ effect = "firecracker" /\ Below(dets[i], left_index) )
           => heap'[img'] = heap[img]
        /\ (pc = "rwrist" /\ Below(dets[i], right_index))
           => heap'[img'] = heap[img]
        /\ ( /\ pc = "loop"
             /\ pc' \in {"idle", "done"}
             /\ \A j \in 1 .. Len(dets) : Gated(dets[j]) )
           => heap'[ret'[Len(ret')]] = img0
      ]_vars

\* C1 witness: in a two-detection call the first detection was drawn, the
\* second one, gated out, was passed over and left the image as it was.
C1_Witness ==
    /\ pc = "loop"
    /\ Len(dets) = 2
    /\ i = 3
    /\ Gated(dets[2])
    /\ \E n \in 1 .. Len(log) : log[n].call = call /\ log[n].det = 1
    /\ ~ \E n \in 1 .. Len(log) : log[n].call = call /\ log[n].det = 2
    /\ Work = iter0
    /\ Work # img0

\* C2: the gate is inclusive in all four effects: a detection (a wrist side)
\* whose required keypoints all have confidence >= kpt_thr has the effect
\* applied, also when a confidence equals kpt_thr.
C2_GateIsInclusive ==
    InLoop =>
        \A j \in 1 .. Len(dets) :
            j < i =>
                /\ ( /\ effect \in EyeEffects
                     /\ AtLeast(dets[j], left_index)
                     /\ AtLeast(dets[j], right_index) )
                   => Logged(call, j, "eyes")
                /\ (effect = "firecracker" /\ AtLeast(dets[j], left_index))
                   => Logged(call, j, "left")
                /\ (effect = "firecracker" /\ AtLeast(dets[j], right_index))
                   => Logged(call, j, "right")

\* C3: for the three overlay effects, one call with the whole list returns
\* the same image as a call with the first detection followed by a call with
\* the rest on the image the first call returned.
C3_OverlayCompounds ==
    (pc = "done" /\ effect \in Overlays) => heap[ret[1]] = heap[ret[3]]

\* C3 witness: two detections, both drawn, each changing the image.
C3_Witness ==
    /\ pc = "done"
    /\ effect \in Overlays
    /\ Len(pose_results) = 2
    /\ \E n \in 1 .. Len(log) : log[n].call = 1 /\ log[n].det = 1
    /\ \E n \in 1 .. Len(log) : log[n].call = 1 /\ log[n].det = 2
    /\ heap[ret[2]] # heap[scene]
    /\ heap[ret[3]] # heap[ret[2]]
    /\ heap[ret[1]] = heap[ret[3]]

\* C4: for the bug-eye, one call with [d1, d2] returns the same image as a
\* call with [d1] followed by a call with [d2] on its result.
C4_BugeyeCompounds ==
    (pc = "done" /\ effect = "bugeye") => heap[ret[1]] = heap[ret[3]]

\* C5: the firecracker's two wrist sides are gated independently: a side is
\* drawn when its own wrist's confidence is above kpt_thr and not drawn when
\* it is below, whatever the other side's confidence.
C5_WristsIndependent ==
    (effect = "firecracker" /\ InLoop) =>
        \A j \in 1 .. Len(dets) :
            /\ (j < i \/ (j = i /\ pc = "rwrist")) =>
                  /\ Above(dets[j], left_index) => Logged(call, j, "left")
                  /\ Below(dets[j], left_index) => ~Logged(call, j, "left")
            /\ j < i =>
                  /\ Above(dets[j], right_index) => Logged(call, j, "right")
                  /\ Below(dets[j], right_index) => ~Logged(call, j, "right")

\* C5 witness: left wrist 0.9, right wrist 0.3, threshold 0.5: the left
\* overlay alone was drawn, and it changed the image.
C5_Witness ==
    /\ effect = "firecracker"
    /\ pc = "loop"
    /\ i = 2
    /\ Score(dets[1].keypoints, left_index) = 9
    /\ InRange(dets[1].keypoints, right_index)
    /\ Score(dets[1].keypoints, right_index) = 3
    /\ kpt_thr = 5
    /\ Logged(call, 1, "left")
    /\ ~Logged(call, 1, "right")
    /\ Work # iter0

\* A warped pixel the masking policy forbids to copy: grayscale >= 200
\* (sunglasses), grayscale >= 240 (firecracker), alpha <= 128 or
\* grayscale <= 30 (hat).
NeverCopied(p) ==
    CASE effect = "sunglasses" -> Gray(p) >= 200
      [] effect = "firecracker" -> Gray(p) >= 240
      [] effect = "hat" -> p[4] <= 128 \/ Gray(p) <= 30

\* C6: a compositing step overwrites the scene pixel with the warped
\* asset's pixel exactly where the mask is set and leaves it elsewhere; the
\* mask is never set on a pixel the policy forbids, nor on the white fill.
C6_MaskedCopyPolicy ==
    [][ (effect \in Overlays /\ Len(log') > Len(log)) =>
          LET e == log'[Len(log')]
              old == heap[img]
              new == heap'[img']
          IN  \A pos \in Pos(old.w, old.h) :
                /\ new.px[pos] = IF e.mask[pos] # 0
                                 THEN Colour(e.warped.px[pos])
                                 ELSE old.px[pos]
                /\ NeverCopied(e.warped.px[pos]) =>
                      e.mask[pos] = 0 /\ new.px[pos] = old.px[pos]
                /\ e.warped.px[pos] = BorderValue(Len(e.warped.px[pos])) =>
                      new.px[pos] = old.px[pos]
                /\ ~NeverCopied(e.warped.px[pos]) =>
                      new.px[pos] = Colour(e.warped.px[pos])
      ]_vars

\* C6 witness: a masked copy just made in which one pixel was copied, one
\* pixel of the asset was refused by the policy, and one pixel is white fill.
C6_Witness ==
    /\ effect \in Overlays
    /\ pc = "loop"
    /\ Len(log) > 0
    /\ LET e == log[Len(log)]
       IN  /\ e.call = call
           /\ e.det = i - 1
           /\ \E pos \in DOMAIN e.mask :
                 e.mask[pos] = 1 /\ Work.px[pos] = Colour(e.warped.px[pos])
                 /\ iter0.px[pos] # Work.px[pos]
           /\ \E pos \in DOMAIN e.mask :
                 /\ e.mask[pos] = 0
                 /\ e.warped.px[pos] # BorderValue(Len(e.warped.px[pos]))
                 /\ Work.px[pos] = iter0.px[pos]
           /\ \E pos \in DOMAIN e.mask :
                 e.warped.px[pos] = BorderValue(Len(e.warped.px[pos]))

\* C7: when a detection raises a fault, no part of that detection's effect
\* has been written to the working image.
C7_FaultIsAtomic ==
    pc = "fault" => heap[img] = iter0

\* The detection a log entry was made for.
EntryDetection(e) == CallList(e.call)[e.det]

\* C8 as claimed: in the field handed to the resampler the pixel at each eye
\* keypoint maps to that keypoint.
C8_EyesFixedInRemapField ==
    effect = "bugeye" =>
        \A n \in 1 .. Len(log) :
            LET d == EntryDetection(log[n])
                leye == XY(d.keypoints, left_index)
                reye == XY(d.keypoints, right_index)
            IN  (d.bbox[3] # d.bbox[1] /\ d.bbox[4] # d.bbox[2]) =>
                    /\ leye \in DOMAIN log[n].grid =>
                          log[n].grid[leye] = <<Q * leye[1], Q * leye[2]>>
                    /\ reye \in DOMAIN log[n].grid =>
                          log[n].grid[reye] = <<Q * reye[1], Q * reye[2]>>

\* C8 amended: each single distortion pass has its own anchor as a fixed
\* point: a grid entry that holds the eye keypoint's coordinate before the
\* pass about that eye holds it after the pass; so after the left-eye pass
\* over a fresh grid the pixel at the left eye maps to the left eye.
C8_EachPassFixesItsAnchor ==
    [][ /\ (effect = "bugeye" /\ pc = "loop" /\ pc' = "reye") =>
              LET c == XY(dets[i].keypoints, left_index)
              IN  \A pos \in DOMAIN grid :
                     grid[pos] = <<Q * c[1], Q * c[2]>> => grid'[pos] = grid[pos]
        /\ (effect = "bugeye" /\ pc = "reye" /\ pc' = "loop") =>
              LET c == XY(dets[i].keypoints, right_index)
              IN  \A pos \in DOMAIN grid :
                     grid[pos] = <<Q * c[1], Q * c[2]>> => grid'[pos] = grid[pos]
      ]_vars

\* C8 witness: after the left-eye pass of the first detection the pixel at
\* the left eye still maps to the left eye, while other pixels have moved.
C8_Witness ==
    /\ effect = "bugeye"
    /\ pc = "reye"
    /\ i = 1
    /\ LET leye == XY(dets[i].keypoints, left_index)
       IN  /\ leye \in DOMAIN grid
           /\ leye # <<0, 0>>
           /\ grid[leye] = <<Q * leye[1], Q * leye[2]>>
           /\ \E pos \in DOMAIN grid : grid[pos] # <<Q * pos[1], Q * pos[2]>>

\* Entry m of the log is drawn later in list order than entry n of the same
\* call: a later detection, or the right wrist of the same detection.
Later(m, n) ==
    /\ log[m].call = log[n].call
    /\ \/ log[m].det > log[n].det
       \/ log[m].det = log[n].det /\ log[n].side = "left" /\ log[m].side = "right"

C10_HatInputAndAssetsUntouched ==
    /\ heap[asset] = asset0
    /\ (effect = "hat" /\ arg # 0) => heap[arg] = img0
    /\ (effect = "hat" /\ pc \in {"idle", "done"} /\ Len(ret) > 0) =>
          ret[Len(ret)] # arg

\* C10 witness: a hat call has returned an image with the hat drawn, and the
\* array it was given still holds the input's pixels.
C10_Witness ==
    /\ effect = "hat"
    /\ pc \in {"idle", "done"}
    /\ Len(ret) > 0
    /\ heap[ret[Len(ret)]] # img0
    /\ heap[arg] = img0
    /\ heap[asset] = asset0

====
